---------------------------- MODULE Spec2Model ----------------------------
(***************************************************************************)
(* Model of the Kshana backend packaging utility.                          *)
(*                                                                         *)
(*   backend-build/build.py   the build workflow: main() runs              *)
(*       parse_args, clean_previous_outputs (with --clean),                *)
(*       ensure_backend_sources, ensure_venv, compute_output_name,         *)
(*       build_bundle and prints the success notice.  Specification Spec.  *)
(*   backend-build/entry.py and pyi_rth_google_adk_tools.py                *)
(*       the runtime entry wrapper and the runtime hook.  Specification    *)
(*       SpecEntry (second half of the module).                            *)
(*                                                                         *)
(* Text is modelled as a sequence of one-character strings, so that        *)
(* lower(), startswith(), split() and int() are computed, not assumed.     *)
(***************************************************************************)
EXTENDS Integers, Sequences, FiniteSets, TLC

VARIABLES
    pc,             \* position of main() in build.py
    args,           \* the argparse.Namespace, as it is now
    parsed,         \* the Namespace as parse_args() returned it (history)
    fs,             \* the filesystem: which paths exist and what they hold
    fs0,            \* the filesystem when the invocation started (history)
    host,           \* what platform.system() reports on this host
    log,            \* the external operations performed so far, in order
    error,          \* the exception that ended main(), or "none"
    version_info,   \* sys.version_info[:3] the interpreter reported to the running
                    \* ensure_venv call (kept in the RuntimeError it raises), or <<>>
    python_bin,     \* the venv interpreter path ensure_venv returned
    output_suffix,  \* what compute_output_name returned
    bundlerCall,    \* the PyInstaller invocation and what it found on disk
    epc,            \* position of the entry wrapper (entry.py)
    toolsAttr,      \* google.adk.tools.AgentTool: "absent", "native", "patched"
    toolsAttr0,     \* toolsAttr when the process started (history)
    importable,     \* whether google.adk.tools.agent_tool can be imported
    assignCount,    \* assignments to google.adk.tools.AgentTool so far
    raised,         \* an exception escaped a patch run
    patchRuns,      \* how many times the patch body has been run
    entryPatched,   \* the wrapper's own patch call (entry.py line 35) has run
    appImported,    \* app.cli has been imported
    environ,        \* os.environ, the two KSHANA_* keys
    environ0,       \* os.environ as inherited from the parent (history)
    dotenvFile,     \* what the backend's .env file holds, and whether it exists
    sysPath         \* whether the backend tree is on sys.path

buildVars == <<pc, args, parsed, fs, fs0, host, log, error, version_info,
               python_bin, output_suffix, bundlerCall>>
entryVars == <<epc, toolsAttr, toolsAttr0, importable, assignCount, raised,
               patchRuns, entryPatched, appImported, environ, environ0,
               dotenvFile, sysPath>>
vars == <<buildVars, entryVars>>

-----------------------------------------------------------------------------
(* Bounds of the model *)

MinorSpan == 1      \* interpreter minor versions MinMinor-MinorSpan..MinMinor+MinorSpan
MaxPatchRuns == 3   \* runs of the compatibility patch in one process

(* Program constants *)

MinMajor == 3       \* build.py:84  (3, 10)
MinMinor == 10      \* build.py:84

-----------------------------------------------------------------------------
(* Text helpers *)

UpperToLower ==
    ("A" :> "a") @@ ("B" :> "b") @@ ("C" :> "c") @@ ("D" :> "d") @@
    ("E" :> "e") @@ ("F" :> "f") @@ ("G" :> "g") @@ ("H" :> "h") @@
    ("I" :> "i") @@ ("J" :> "j") @@ ("K" :> "k") @@ ("L" :> "l") @@
    ("M" :> "m") @@ ("N" :> "n") @@ ("O" :> "o") @@ ("P" :> "p") @@
    ("Q" :> "q") @@ ("R" :> "r") @@ ("S" :> "s") @@ ("T" :> "t") @@
    ("U" :> "u") @@ ("V" :> "v") @@ ("W" :> "w") @@ ("X" :> "x") @@
    ("Y" :> "y") @@ ("Z" :> "z")

\* str.lower()
Lower(s) ==
    [i \in 1..Len(s) |-> IF s[i] \in DOMAIN UpperToLower
                         THEN UpperToLower[s[i]] ELSE s[i]]

\* str.startswith(prefix)
StartsWith(s, prefix) ==
    /\ Len(prefix) <= Len(s)
    /\ SubSeq(s, 1, Len(prefix)) = prefix

Digits == <<"0", "1", "2", "3", "4", "5", "6", "7", "8", "9">>

\* str(n) for a natural number
RECURSIVE IntToStr(_)
IntToStr(n) ==
    IF n < 10 THEN <<Digits[n + 1]>>
    ELSE IntToStr(n \div 10) \o <<Digits[(n % 10) + 1]>>

DigitValue(c) == CHOOSE d \in 0..9 : Digits[d + 1] = c

\* int(s) for a string of decimal digits
RECURSIVE StrToInt(_)
StrToInt(s) ==
    IF Len(s) = 0 THEN 0
    ELSE 10 * StrToInt(SubSeq(s, 1, Len(s) - 1)) + DigitValue(s[Len(s)])

\* '.'.join(map(str, parts))
RECURSIVE JoinDots(_)
JoinDots(parts) ==
    IF Len(parts) = 0 THEN <<>>
    ELSE IF Len(parts) = 1 THEN IntToStr(parts[1])
    ELSE IntToStr(parts[1]) \o <<".">> \o JoinDots(Tail(parts))

\* s.split(".")
RECURSIVE SplitDots(_)
SplitDots(s) ==
    IF \A i \in 1..Len(s) : s[i] /= "." THEN <<s>>
    ELSE LET k == CHOOSE i \in 1..Len(s) :
                      /\ s[i] = "."
                      /\ \A j \in 1..(i - 1) : s[j] /= "."
         IN  <<SubSeq(s, 1, k - 1)>> \o SplitDots(SubSeq(s, k + 1, Len(s)))

-----------------------------------------------------------------------------
(* The environment of an invocation *)

None == "None"
SourceP == "P"                   \* the path given with --source-path
Candidate == "../../kshana"      \* ROOT.parent.parent / "kshana"

Refs == {"main", "v1", ""}
Platforms == {"auto", "mac", "win", "linux"}
ExitCodes == {0, 1}

Hosts == {
    <<"D","a","r","w","i","n">>,
    <<"W","i","n","d","o","w","s">>,
    <<"L","i","n","u","x">>,
    <<>>,
    <<"d","a","r","w","i","n">>,
    <<"W","i","n">> }

\* sys.version_info[:3] of the interpreters tried: majors around 3, minors
\* around 10 (one and two digits), patch level 0
Versions ==
    ((MinMajor - 1)..(MinMajor + 1))
        \X ((MinMinor - MinorSpan)..(MinMinor + MinorSpan)) \X {0}

Absent == [exists |-> FALSE, holds |-> "nothing", ref |-> "none"]
OldCheckout == [exists |-> TRUE, holds |-> "old", ref |-> "none"]

NoDir == [exists |-> FALSE, files |-> {}]
OldDir == [exists |-> TRUE, files |-> {"old"}]

NotCalled == [called |-> FALSE, python_bin |-> "none", distpath |-> <<>>,
              workpath |-> "none", specpath |-> "none", pythonpath |-> "none",
              dist |-> NoDir, build |-> NoDir]

Op(name, exit) == [op |-> name, ok |-> exit = 0]


Pythons == {"sys.executable", "/opt/python3"}

DefaultArgs == [source_path |-> None, ref |-> "main", platform |-> "auto",
                clean |-> FALSE, python |-> "sys.executable"]

\* The wrapper is not running while the build workflow is checked.
EntryIdle ==
    /\ epc = "idle"
    /\ toolsAttr = "absent"
    /\ toolsAttr0 = "absent"
    /\ importable = FALSE
    /\ assignCount = 0
    /\ raised = FALSE
    /\ patchRuns = 0
    /\ entryPatched = FALSE
    /\ appImported = FALSE
    /\ environ = [KSHANA_HOST |-> "unset", KSHANA_PUBLIC_HOST |-> "unset"]
    /\ environ0 = environ
    /\ dotenvFile = [tree |-> FALSE, exists |-> FALSE, loader |-> FALSE,
                     KSHANA_HOST |-> "unset", KSHANA_PUBLIC_HOST |-> "unset"]
    /\ sysPath = FALSE

Init ==
    /\ pc = "parse_args"
    /\ args = DefaultArgs
    /\ parsed = DefaultArgs
    /\ fs \in [candidate : BOOLEAN, source : BOOLEAN,
               staged : {Absent, OldCheckout},
               venv : {NoDir, OldDir}, dist : {NoDir, OldDir},
               build : {NoDir, OldDir}]
    /\ fs0 = fs
    /\ host \in Hosts
    /\ log = <<>>
    /\ error = "none"
    /\ version_info = <<>>
    /\ python_bin = "none"
    /\ output_suffix = "none"
    /\ bundlerCall = NotCalled
    /\ EntryIdle

-----------------------------------------------------------------------------
(* build.py *)

\* run(): subprocess.run(cmd, check=True) raises on a non-zero exit status
RaisesNever(exit) == FALSE
Raises(exit) == exit /= 0

\* Path.exists() for the paths ensure_backend_sources asks about
Exists(p) ==
    CASE p = Candidate -> fs.candidate
      [] p = SourceP   -> fs.source
      [] OTHER         -> FALSE

\* parse_args(): every flag is optional; the parsed Namespace is returned
ParseArgs ==
    /\ pc = "parse_args"
    /\ \E sp \in {None, SourceP}, r \in Refs, pl \in Platforms,
          c \in BOOLEAN, py \in Pythons :
          /\ args' = [source_path |-> sp, ref |-> r, platform |-> pl,
                      clean |-> c, python |-> py]
          /\ parsed' = args'
    /\ pc' = "clean"
    /\ UNCHANGED <<fs, fs0, host, log, error, version_info, python_bin,
                   output_suffix, bundlerCall, entryVars>>

\* clean_previous_outputs(): rmtree of DIST_DIR and BUILD_DIR where they exist
clean_previous_outputs_keep_build ==
    [removed |-> IF fs.dist.exists THEN <<Op("rmtree_dist", 0)>> ELSE <<>>,
     fs |-> [fs EXCEPT !.dist = NoDir]]
clean_previous_outputs ==
    [removed |-> (IF fs.dist.exists THEN <<Op("rmtree_dist", 0)>> ELSE <<>>)
                 \o (IF fs.build.exists THEN <<Op("rmtree_build", 0)>> ELSE <<>>),
     fs |-> [fs EXCEPT !.dist = NoDir, !.build = NoDir]]

\* main(), lines 182-183: if args.clean: clean_previous_outputs()
MainClean ==
    /\ pc = "clean"
    /\ IF args.clean
       THEN /\ log' = log \o clean_previous_outputs.removed
            /\ fs' = clean_previous_outputs.fs
       ELSE UNCHANGED <<log, fs>>
    /\ pc' = "ensure_backend_sources"
    /\ UNCHANGED <<args, parsed, fs0, host, error, version_info, python_bin,
                   output_suffix, bundlerCall, entryVars>>

\* ensure_backend_sources, lines 93-96: with no --source-path, a sibling
\* checkout at ROOT.parent.parent / "kshana" becomes args.source_path
LocalCandidateAlways(sp) == IF fs.candidate THEN Candidate ELSE sp
LocalCandidate(sp) == IF sp = None /\ fs.candidate THEN Candidate ELSE sp

\* ensure_backend_sources, line 100: the source path is checked first
SourceMissingIgnored(sp) == FALSE
SourceMissing(sp) == ~Exists(sp)

\* ensure_backend_sources, line 113: an existing staged checkout is kept
ExistingCheckoutIgnored == FALSE
ExistingCheckout == fs.staged.exists

\* ensure_backend_sources, lines 117-119: clone, then checkout of another ref
CloneCommandsTwice(ref) == <<"clone", "clone">>
CloneCommands(ref) ==
    <<"clone">> \o (IF ref /= "" /\ ref /= "main" THEN <<"checkout">> ELSE <<>>)

EnsureBackendSources ==
    /\ pc = "ensure_backend_sources"
    /\ \E cloneExit \in ExitCodes, checkoutExit \in ExitCodes,
          copyExit \in ExitCodes :
        LET sp == LocalCandidate(args.source_path)
            cmds == CloneCommands(args.ref)
            exitOf(i) == IF cmds[i] = "clone" THEN cloneExit ELSE checkoutExit
            \* the commands run() is given before one of them raises
            ran == IF \E i \in 1..Len(cmds) : Raises(exitOf(i))
                   THEN CHOOSE i \in 1..Len(cmds) :
                            /\ Raises(exitOf(i))
                            /\ \A j \in 1..(i - 1) : ~Raises(exitOf(j))
                   ELSE Len(cmds)
            gitRaised == \E i \in 1..Len(cmds) : Raises(exitOf(i))
            cloned == cloneExit = 0
            checkedOut == /\ cloned
                          /\ \E i \in 1..ran : cmds[i] = "checkout"
                          /\ checkoutExit = 0
        IN
        /\ args' = [args EXCEPT !.source_path = sp]
        /\ IF sp /= None
           THEN IF SourceMissing(sp)
                THEN /\ log' = Append(log, Op("source_exists", 1))
                     /\ error' = "FileNotFoundError"
                     /\ pc' = "failed"
                     /\ fs' = fs
                ELSE /\ log' = log
                           \o <<Op("source_exists", 0)>>
                           \o (IF fs.staged.exists
                               THEN <<Op("rmtree_staged", 0)>> ELSE <<>>)
                           \o <<Op("copytree", copyExit)>>
                     /\ fs' = [fs EXCEPT !.staged =
                                 [exists |-> TRUE,
                                  holds |-> IF copyExit = 0 THEN sp ELSE "partial",
                                  ref |-> "none"]]
                     /\ error' = IF copyExit = 0 THEN "none" ELSE "shutil.Error"
                     /\ pc' = IF copyExit = 0 THEN "ensure_venv" ELSE "failed"
           ELSE IF ExistingCheckout
                THEN /\ UNCHANGED <<log, fs, error>>
                     /\ pc' = "ensure_venv"
                ELSE /\ log' = log \o [i \in 1..ran |-> Op(cmds[i], exitOf(i))]
                     /\ fs' = [fs EXCEPT !.staged =
                                 IF cloned
                                 THEN [exists |-> TRUE, holds |-> "clone",
                                       ref |-> IF checkedOut THEN args.ref ELSE "main"]
                                 ELSE fs.staged]
                     /\ error' = IF gitRaised THEN "CalledProcessError" ELSE "none"
                     /\ pc' = IF gitRaised THEN "failed" ELSE "ensure_venv"
    /\ UNCHANGED <<parsed, fs0, host, version_info, python_bin, output_suffix,
                   bundlerCall, entryVars>>

\* ensure_python_version, lines 83-84: the reported version string is split
\* on ".", each part converted with int(), and (major, minor) compared with
\* (3, 10) as tuples
BelowMinimumBothParts(version_str) ==
    LET parts == SplitDots(version_str)
    IN  StrToInt(parts[1]) < MinMajor /\ StrToInt(parts[2]) < MinMinor
BelowMinimum(version_str) ==
    LET parts == SplitDots(version_str)
        major == StrToInt(parts[1])
        minor == StrToInt(parts[2])
    IN  \/ major < MinMajor
        \/ major = MinMajor /\ minor < MinMinor

\* ensure_venv, lines 127-131: where the venv keeps its interpreter
VenvPython ==
    IF host = <<"W","i","n","d","o","w","s">>
    THEN ".venv/Scripts/python.exe" ELSE ".venv/bin/python3"

\* ensure_python_version(python_cmd), called first by ensure_venv
EnsurePythonVersion ==
    /\ pc = "ensure_venv"
    /\ \E v \in Versions, checkExit \in ExitCodes :
        LET version_str == JoinDots(v)
        IN
        IF checkExit /= 0
        THEN \* subprocess.check_output raises CalledProcessError
             /\ log' = Append(log, Op("version_check", checkExit))
             /\ error' = "CalledProcessError"
             /\ pc' = "failed"
             /\ UNCHANGED version_info
        ELSE IF BelowMinimum(version_str)
        THEN /\ log' = Append(log, Op("version_check", 1))
             /\ version_info' = v
             /\ error' = "RuntimeError"
             /\ pc' = "failed"
        ELSE /\ log' = Append(log, Op("version_check", 0))
             /\ version_info' = v
             /\ error' = "none"
             /\ pc' = "create_venv"
    /\ UNCHANGED <<args, parsed, fs, fs0, host, python_bin, output_suffix,
                   bundlerCall, entryVars>>

\* ensure_venv(args.python) after the version check: venv creation when .venv
\* is absent, pip upgrade, pip install -r requirements.txt
EnsureVenv ==
    /\ pc = "create_venv"
    /\ \E venvExit \in ExitCodes, upgradeExit \in ExitCodes,
          installExit \in ExitCodes :
        LET create == ~fs.venv.exists
            venvRaised == create /\ Raises(venvExit)
            upgradeRaised == ~venvRaised /\ Raises(upgradeExit)
            installRaised == ~venvRaised /\ ~upgradeRaised /\ Raises(installExit)
            anyRaised == venvRaised \/ upgradeRaised \/ installRaised
            created == create /\ venvExit = 0
            upgraded == ~venvRaised /\ upgradeExit = 0
            installed == ~venvRaised /\ ~upgradeRaised /\ installExit = 0
        IN
        /\ log' = log
              \o (IF create THEN <<Op("venv", venvExit)>> ELSE <<>>)
              \o (IF ~venvRaised
                  THEN <<Op("pip_upgrade", upgradeExit)>> ELSE <<>>)
              \o (IF ~venvRaised /\ ~upgradeRaised
                  THEN <<Op("pip_install", installExit)>> ELSE <<>>)
        /\ fs' = [fs EXCEPT !.venv =
                    [exists |-> fs.venv.exists \/ created,
                     files |-> fs.venv.files
                               \cup (IF upgraded THEN {"pip"} ELSE {})
                               \cup (IF installed THEN {"requirements"} ELSE {})]]
        /\ error' = IF anyRaised THEN "CalledProcessError" ELSE "none"
        /\ pc' = IF anyRaised THEN "failed" ELSE "compute_output_name"
        /\ python_bin' = IF anyRaised THEN python_bin ELSE VenvPython
    /\ version_info' = <<>>
    /\ UNCHANGED <<args, parsed, fs0, host, output_suffix, bundlerCall, entryVars>>

\* compute_output_name(args), with system = platform.system()
compute_output_name_exact(platform, system) ==
    IF platform /= "auto" THEN platform
    ELSE IF system = <<"D","a","r","w","i","n">> THEN "mac"
    ELSE IF system = <<"W","i","n","d","o","w","s">> THEN "win"
    ELSE "linux"
compute_output_name(platform, system) ==
    IF platform /= "auto" THEN platform
    ELSE IF StartsWith(Lower(system), <<"d","a","r","w","i","n">>) THEN "mac"
    ELSE IF StartsWith(Lower(system), <<"w","i","n","d","o","w","s">>) THEN "win"
    ELSE "linux"

\* main(), line 186
ComputeOutputName ==
    /\ pc = "compute_output_name"
    /\ output_suffix' = compute_output_name(args.platform, host)
    /\ pc' = "build_bundle"
    /\ UNCHANGED <<args, parsed, fs, fs0, host, log, error, version_info,
                   python_bin, bundlerCall, entryVars>>

\* build_bundle, lines 157-158: mkdir(parents=True, exist_ok=True)
MakeDir(d) == IF d.exists THEN d ELSE [exists |-> TRUE, files |-> {}]

\* build_bundle, line 170: DIST_DIR / f"kshana-backend-{output_suffix}"
DistPath(suffix) == <<"dist", "kshana-backend-", suffix>>

\* build_bundle(python_bin, output_suffix)
BuildBundle ==
    /\ pc = "build_bundle"
    /\ \E exit \in ExitCodes :
        LET dist == MakeDir(fs.dist)
            build == MakeDir(fs.build)
        IN
        /\ bundlerCall' = [called |-> TRUE, python_bin |-> python_bin,
                           distpath |-> DistPath(output_suffix),
                           workpath |-> "build-artifacts",
                           specpath |-> "kshana.spec",
                           pythonpath |-> "kshana",
                           dist |-> dist, build |-> build]
        /\ log' = log \o <<Op("mkdir_dist", 0), Op("mkdir_build", 0),
                           Op("pyinstaller", exit)>>
        /\ fs' = [fs EXCEPT
                    !.dist = [dist EXCEPT !.files =
                                 IF exit = 0 THEN @ \cup {"bundle"} ELSE @],
                    !.build = [build EXCEPT !.files = @ \cup {"work"}]]
        /\ error' = IF Raises(exit) THEN "CalledProcessError" ELSE "none"
        /\ pc' = IF Raises(exit) THEN "failed" ELSE "success"
    /\ UNCHANGED <<args, parsed, fs0, host, version_info, python_bin,
                   output_suffix, entryVars>>

\* main(), line 188: the success notice
PrintSuccess ==
    /\ pc = "success"
    /\ log' = Append(log, Op("success", 0))
    /\ pc' = "done"
    /\ UNCHANGED <<args, parsed, fs, fs0, host, error, version_info, python_bin,
                   output_suffix, bundlerCall, entryVars>>

Next ==
    \/ ParseArgs
    \/ MainClean
    \/ EnsureBackendSources
    \/ EnsurePythonVersion
    \/ EnsureVenv
    \/ ComputeOutputName
    \/ BuildBundle
    \/ PrintSuccess

Spec == Init /\ [][Next]_vars

-----------------------------------------------------------------------------
(* entry.py and pyi_rth_google_adk_tools.py *)

Unset == "unset"
Loopback == "127.0.0.1"
EnvKeys == {"KSHANA_HOST", "KSHANA_PUBLIC_HOST"}
InheritedValues == {Unset, "", "0.0.0.0"}
FileValues == {Unset, "10.0.0.8"}

\* The build workflow is not running while the wrapper is checked.
BuildIdle ==
    /\ pc = "idle"
    /\ args = DefaultArgs
    /\ parsed = DefaultArgs
    /\ fs = [candidate |-> FALSE, source |-> FALSE, staged |-> Absent,
             venv |-> NoDir, dist |-> NoDir, build |-> NoDir]
    /\ fs0 = fs
    /\ host = <<"L","i","n","u","x">>
    /\ log = <<>>
    /\ error = "none"
    /\ version_info = <<>>
    /\ python_bin = "none"
    /\ output_suffix = "none"
    /\ bundlerCall = NotCalled

InitEntry ==
    /\ BuildIdle
    /\ epc = "load"
    /\ toolsAttr \in {"absent", "native"}
    /\ toolsAttr0 = toolsAttr
    /\ importable \in BOOLEAN
    /\ assignCount = 0
    /\ raised = FALSE
    /\ patchRuns = 0
    /\ entryPatched = FALSE
    /\ appImported = FALSE
    /\ environ \in [EnvKeys -> InheritedValues]
    /\ environ0 = environ
    /\ dotenvFile \in [tree : BOOLEAN, exists : BOOLEAN, loader : BOOLEAN,
                       KSHANA_HOST : FileValues, KSHANA_PUBLIC_HOST : FileValues]
    /\ dotenvFile.exists => dotenvFile.tree
    /\ sysPath = FALSE

\* "except ImportError: pass" (entry.py 29-32, hook 18-20)
SwallowedNothing(exc) == FALSE
Swallowed(exc) == exc = "ImportError"

\* "if not hasattr(google.adk.tools, 'AgentTool')" (entry.py 27, hook 16)
PatchNeededAlways == TRUE
PatchNeeded == toolsAttr = "absent"

\* The patch body, the same in _patch_google_adk_tools and in the runtime hook:
\* import the class, assign it when the package does not expose it, swallow
\* an ImportError
PatchBody ==
    LET exc == IF importable THEN "none" ELSE "ImportError"
    IN
    /\ patchRuns' = patchRuns + 1
    /\ IF exc /= "none"
       THEN /\ raised' = (raised \/ ~Swallowed(exc))
            /\ UNCHANGED <<toolsAttr, assignCount>>
       ELSE /\ raised' = raised
            /\ IF PatchNeeded
               THEN /\ toolsAttr' = "patched"
                    /\ assignCount' = assignCount + 1
               ELSE UNCHANGED <<toolsAttr, assignCount>>

\* pyi_rth_google_adk_tools.py, run by the bundled binary's bootloader
RuntimeHook ==
    /\ epc /= "idle"
    /\ ~raised
    /\ patchRuns < (IF entryPatched THEN MaxPatchRuns ELSE MaxPatchRuns - 1)
    /\ PatchBody
    /\ UNCHANGED <<epc, toolsAttr0, importable, entryPatched, appImported,
                   environ, environ0, dotenvFile, sysPath, buildVars>>

\* entry.py line 35: the module runs _patch_google_adk_tools() as it loads
EntryLoad ==
    /\ epc = "load"
    /\ ~raised
    /\ PatchBody
    /\ entryPatched' = TRUE
    /\ epc' = "main"
    /\ UNCHANGED <<toolsAttr0, importable, appImported, environ, environ0,
                   dotenvFile, sysPath, buildVars>>

\* a further call of _patch_google_adk_tools() in the same process
PatchAgain ==
    /\ epc \notin {"idle", "load"}
    /\ ~raised
    /\ patchRuns < MaxPatchRuns
    /\ PatchBody
    /\ UNCHANGED <<epc, toolsAttr0, importable, entryPatched, appImported,
                   environ, environ0, dotenvFile, sysPath, buildVars>>

\* _ensure_project_on_path()
EnsureProjectOnPath ==
    /\ epc = "main"
    /\ ~raised
    /\ sysPath' = (sysPath \/ dotenvFile.tree)
    /\ epc' = "load_dotenv"
    /\ UNCHANGED <<toolsAttr, toolsAttr0, importable, assignCount, raised,
                   patchRuns, entryPatched, appImported, environ, environ0,
                   dotenvFile, buildVars>>

\* dotenv.load_dotenv(dotenv_path=env_path): override is False, a key the
\* process already has keeps its value
LoadedValue(env, k) ==
    IF env[k] = Unset /\ dotenvFile[k] /= Unset THEN dotenvFile[k] ELSE env[k]

\* _load_dotenv(project_dir)
LoadDotenv ==
    /\ epc = "load_dotenv"
    /\ ~raised
    /\ environ' = IF dotenvFile.tree /\ dotenvFile.exists /\ dotenvFile.loader
                  THEN [k \in EnvKeys |-> LoadedValue(environ, k)]
                  ELSE environ
    /\ epc' = "setdefault"
    /\ UNCHANGED <<toolsAttr, toolsAttr0, importable, assignCount, raised,
                   patchRuns, entryPatched, appImported, environ0, dotenvFile,
                   sysPath, buildVars>>

\* os.environ.setdefault(k, v)
SetDefaultOverwrites(env, k, v) == [env EXCEPT ![k] = v]
SetDefault(env, k, v) == IF env[k] = Unset THEN [env EXCEPT ![k] = v] ELSE env

\* main(), lines 67-68
SetDefaults ==
    /\ epc = "setdefault"
    /\ ~raised
    /\ environ' = SetDefault(SetDefault(environ, "KSHANA_HOST", Loopback),
                             "KSHANA_PUBLIC_HOST", Loopback)
    /\ epc' = "import_app"
    /\ UNCHANGED <<toolsAttr, toolsAttr0, importable, assignCount, raised,
                   patchRuns, entryPatched, appImported, environ0, dotenvFile,
                   sysPath, buildVars>>

\* main(), line 71: from app.cli import start
ImportApp ==
    /\ epc = "import_app"
    /\ ~raised
    /\ \E found \in BOOLEAN :
        /\ appImported' = found
        /\ epc' = IF found THEN "start" ELSE "failed"
    /\ UNCHANGED <<toolsAttr, toolsAttr0, importable, assignCount, raised,
                   patchRuns, entryPatched, environ, environ0, dotenvFile,
                   sysPath, buildVars>>

\* main(), line 73: start()
Start ==
    /\ epc = "start"
    /\ ~raised
    /\ epc' = "started"
    /\ UNCHANGED <<toolsAttr, toolsAttr0, importable, assignCount, raised,
                   patchRuns, entryPatched, appImported, environ, environ0,
                   dotenvFile, sysPath, buildVars>>

NextEntry ==
    \/ RuntimeHook
    \/ EntryLoad
    \/ PatchAgain
    \/ EnsureProjectOnPath
    \/ LoadDotenv
    \/ SetDefaults
    \/ ImportApp
    \/ Start

SpecEntry == InitEntry /\ [][NextEntry]_vars

-----------------------------------------------------------------------------
(* Properties of the build workflow (checked under Spec) *)

Count(name) == Cardinality({i \in DOMAIN log : log[i].op = name})
Performed(name) == Count(name) > 0
Succeeded(name) == \E i \in DOMAIN log : log[i].op = name /\ log[i].ok

\* ensure_backend_sources has returned or raised
AcquisitionDone ==
    pc \notin {"idle", "parse_args", "clean", "ensure_backend_sources"}

NoSourcePath == parsed.source_path = None

ProvisioningOps == {"version_check", "venv", "pip_upgrade", "pip_install"}
BuildOps == {"mkdir_dist", "mkdir_build", "pyinstaller", "success"}

\* C1, as stated: an invocation without --source-path that finds no staged
\* source tree performs git clone exactly once, whatever else is on disk.
C1_CloneExactlyOnce ==
    (AcquisitionDone /\ NoSourcePath /\ ~fs0.staged.exists)
        => Count("clone") = 1

\* C1, amended: an invocation without --source-path that finds no staged source
\* tree performs git clone exactly once when no sibling checkout exists at
\* ROOT.parent.parent / "kshana"; when the sibling exists it is copied into the
\* staging directory and nothing is cloned.
C1_CloneOnceUnlessSibling ==
    (AcquisitionDone /\ NoSourcePath /\ ~fs0.staged.exists)
        => IF fs0.candidate
           THEN Count("clone") = 0 /\ Count("copytree") = 1
           ELSE Count("clone") = 1 /\ Count("copytree") = 0

C1_Witness ==
    /\ AcquisitionDone /\ NoSourcePath /\ ~fs0.staged.exists /\ ~fs0.candidate
    /\ Succeeded("clone")
    /\ fs.staged.exists /\ fs.staged.holds = "clone"

\* C2, as stated: an invocation without --source-path that finds a staged
\* source tree performs no clone, no copy and no removal and leaves the tree
\* as it was.
C2_StagedTreeKept ==
    (AcquisitionDone /\ NoSourcePath /\ fs0.staged.exists)
        => /\ ~Performed("clone") /\ ~Performed("checkout")
           /\ ~Performed("copytree") /\ ~Performed("rmtree_staged")
           /\ fs.staged = fs0.staged

\* C2, amended: the staged tree is left alone (no clone, copy or removal) when
\* no --source-path is given and no sibling checkout exists at
\* ROOT.parent.parent / "kshana"; when the sibling exists the staged tree is
\* removed and replaced by a copy of the sibling.
C2_StagedTreeKeptUnlessSibling ==
    (AcquisitionDone /\ NoSourcePath /\ fs0.staged.exists)
        => IF fs0.candidate
           THEN /\ Performed("rmtree_staged") /\ Performed("copytree")
                /\ ~Performed("clone")
                /\ fs.staged.holds \in {Candidate, "partial"}
           ELSE /\ ~Performed("clone") /\ ~Performed("checkout")
                /\ ~Performed("copytree") /\ ~Performed("rmtree_staged")
                /\ fs.staged = fs0.staged

C2_Witness ==
    /\ AcquisitionDone /\ NoSourcePath /\ fs0.staged.exists /\ ~fs0.candidate
    /\ pc = "create_venv"
    /\ fs.staged = OldCheckout

\* C3: with --source-path P and P missing, main() ends with FileNotFoundError
\* before the version check, venv creation, pip and the bundler, and the staged
\* source tree is what it was.
C3_MissingSourceAborts ==
    (AcquisitionDone /\ parsed.source_path = SourceP /\ ~fs0.source)
        => /\ pc = "failed"
           /\ error = "FileNotFoundError"
           /\ \A i \in DOMAIN log : log[i].op \notin ProvisioningOps \cup BuildOps
           /\ ~Performed("rmtree_staged") /\ ~Performed("copytree")
           /\ fs.staged = fs0.staged
           /\ fs.venv = fs0.venv
           /\ ~bundlerCall.called

C3_Witness ==
    /\ AcquisitionDone /\ parsed.source_path = SourceP /\ ~fs0.source
    /\ fs0.staged.exists
    /\ error = "FileNotFoundError"

\* (major, minor) < (3, 10), on the numbers the interpreter has
VersionBelowMinimum(v) ==
    \/ v[1] < MinMajor
    \/ v[1] = MinMajor /\ v[2] < MinMinor

\* C4: when the interpreter reports a version below 3.10, ensure_venv ends with
\* the version-mismatch error; the venv command, pip and the bundler are not
\* run, the .venv directory is what it was, and the version is asked only once.
C4_OldInterpreterAborts ==
    (version_info /= <<>> /\ VersionBelowMinimum(version_info))
        => /\ pc = "failed"
           /\ error = "RuntimeError"
           /\ Count("version_check") = 1
           /\ ~Performed("venv")
           /\ ~Performed("pip_upgrade") /\ ~Performed("pip_install")
           /\ ~Performed("pyinstaller")
           /\ fs.venv = fs0.venv
           /\ ~bundlerCall.called

C4_Witness ==
    /\ version_info = <<MinMajor, MinMinor - 1, 0>>
    /\ error = "RuntimeError"
    /\ ~fs0.venv.exists /\ ~fs.venv.exists

\* The place of each step in main()
StepOrder ==
    [rmtree_dist |-> 1, rmtree_build |-> 2, source_exists |-> 3,
     rmtree_staged |-> 4, copytree |-> 5, clone |-> 6, checkout |-> 7,
     version_check |-> 8, venv |-> 9, pip_upgrade |-> 10, pip_install |-> 11,
     mkdir_dist |-> 12, mkdir_build |-> 13, pyinstaller |-> 14, success |-> 15]

\* C5: the steps run in the order acquisition, provisioning, build, each at
\* most once; a step is run only when every step before it completed, so a
\* failed step is the last one; main() has failed exactly when an error was
\* raised; provisioning starts on a staged tree, the bundler after both pip
\* runs succeeded, and the success notice only after the bundler exited zero.
C5_FailFastInOrder ==
    /\ \A i \in DOMAIN log : \A j \in DOMAIN log :
          i < j => /\ log[i].ok
                   /\ StepOrder[log[i].op] < StepOrder[log[j].op]
    /\ (error /= "none") <=> (pc = "failed")
    /\ pc = "failed" => (log /= <<>> /\ ~log[Len(log)].ok)
    /\ Performed("version_check")
          => (fs.staged.exists /\ fs.staged.holds /= "partial")
    /\ Performed("pyinstaller")
          => (Succeeded("version_check") /\ Succeeded("pip_upgrade")
              /\ Succeeded("pip_install") /\ fs.venv.exists)
    /\ Performed("success") => (Succeeded("pyinstaller") /\ pc = "done")
    /\ pc = "done" => Performed("success")

C5_Witness ==
    /\ pc = "failed"
    /\ Succeeded("clone") /\ Succeeded("venv")
    /\ Performed("pip_upgrade") /\ ~Succeeded("pip_upgrade")
    /\ ~Performed("pip_install") /\ ~Performed("pyinstaller")

\* C6: with --clean, dist and build-artifacts are removed before build_bundle
\* makes them and before the bundler starts, so the bundler finds nothing in
\* them that was there before the invocation; without --clean neither is ever
\* removed and what they held stays.
C6_CleanBeforeBuild ==
    /\ (parsed.clean /\ pc \notin {"idle", "parse_args", "clean"})
          => /\ fs0.dist.exists <=> Performed("rmtree_dist")
             /\ fs0.build.exists <=> Performed("rmtree_build")
             /\ "old" \notin fs.dist.files /\ "old" \notin fs.build.files
    /\ (parsed.clean /\ bundlerCall.called)
          => /\ bundlerCall.dist = [exists |-> TRUE, files |-> {}]
             /\ bundlerCall.build = [exists |-> TRUE, files |-> {}]
    /\ ~parsed.clean
          => /\ ~Performed("rmtree_dist") /\ ~Performed("rmtree_build")
             /\ fs0.dist.exists => (fs.dist.exists /\ "old" \in fs.dist.files)
             /\ fs0.build.exists => (fs.build.exists /\ "old" \in fs.build.files)

C6_Witness ==
    /\ parsed.clean /\ bundlerCall.called
    /\ fs0.dist = OldDir /\ fs0.build = OldDir
    /\ Performed("rmtree_dist") /\ Performed("rmtree_build")

Darwin == <<"D","a","r","w","i","n">>
Windows == <<"W","i","n","d","o","w","s">>

\* C7, as stated: an explicit platform is returned unchanged; with auto the
\* suffix is mac on a host reporting "Darwin", win on "Windows" and linux for
\* every other reported name; the bundler writes to dist/kshana-backend-<suffix>.
C7_SuffixByExactName ==
    output_suffix /= "none"
        => /\ output_suffix =
                IF args.platform /= "auto" THEN args.platform
                ELSE IF host = Darwin THEN "mac"
                ELSE IF host = Windows THEN "win"
                ELSE "linux"
           /\ bundlerCall.called
                => bundlerCall.distpath = <<"dist", "kshana-backend-", output_suffix>>

\* the reported name begins with word, letter case aside
BeginsWithAnyCase(name, word) ==
    /\ Len(name) >= Len(word)
    /\ \A i \in 1..Len(word) :
          \/ name[i] = word[i]
          \/ name[i] \in DOMAIN UpperToLower /\ UpperToLower[name[i]] = word[i]

\* C7, amended: an explicit platform is returned unchanged; with auto the
\* suffix is mac when the reported name begins with "darwin" in any letter
\* case (so on "Darwin"), win when it begins with "windows" in any letter case
\* (so on "Windows"), and linux otherwise; the bundler writes to
\* dist/kshana-backend-<suffix>.
C7_SuffixByNamePrefix ==
    output_suffix /= "none"
        => /\ output_suffix =
                IF args.platform /= "auto" THEN args.platform
                ELSE IF BeginsWithAnyCase(host, <<"d","a","r","w","i","n">>) THEN "mac"
                ELSE IF BeginsWithAnyCase(host, <<"w","i","n","d","o","w","s">>) THEN "win"
                ELSE "linux"
           /\ (args.platform = "auto" /\ host = Darwin) => output_suffix = "mac"
           /\ (args.platform = "auto" /\ host = Windows) => output_suffix = "win"
           /\ bundlerCall.called
                => bundlerCall.distpath = <<"dist", "kshana-backend-", output_suffix>>

C7_Witness ==
    /\ args.platform = "auto"
    /\ host = <<"d","a","r","w","i","n">>
    /\ output_suffix = "mac"
    /\ bundlerCall.called

\* C10, as stated: after parse_args every field of the configuration keeps the
\* value parsing gave it.
C10_ConfigurationFrozen ==
    pc \notin {"idle", "parse_args"} => args = parsed

\* C10, amended: ref, platform, interpreter path and clean flag keep the value
\* parsing gave them; the source path keeps it too, except that an invocation
\* without --source-path has it set to the sibling checkout
\* ROOT.parent.parent / "kshana" by ensure_backend_sources when that exists.
C10_ConfigurationFrozenButSourcePath ==
    pc \notin {"idle", "parse_args"}
        => /\ args.ref = parsed.ref
           /\ args.platform = parsed.platform
           /\ args.python = parsed.python
           /\ args.clean = parsed.clean
           /\ args.source_path =
                IF AcquisitionDone /\ NoSourcePath /\ fs0.candidate
                THEN Candidate ELSE parsed.source_path

C10_Witness ==
    /\ pc = "done"
    /\ NoSourcePath
    /\ args.source_path = Candidate

-----------------------------------------------------------------------------
(* Properties of the entry wrapper (checked under SpecEntry) *)

\* C8: however often the patch is run, by the hook and by the wrapper,
\* AgentTool is assigned at most once, a symbol the package already has is
\* never replaced, nothing is assigned when the submodule import fails, no run
\* raises, once a run found the submodule the symbol is there, and the
\* wrapper has run its patch before app.cli is imported.
C8_PatchIdempotent ==
    /\ assignCount <= 1
    /\ ~raised
    /\ toolsAttr0 = "native" => (toolsAttr = "native" /\ assignCount = 0)
    /\ ~importable => (toolsAttr = toolsAttr0 /\ assignCount = 0)
    /\ (importable /\ patchRuns >= 1) => toolsAttr /= "absent"
    /\ (toolsAttr0 = "absent" /\ importable /\ patchRuns >= 1)
          => (toolsAttr = "patched" /\ assignCount = 1)
    /\ appImported => entryPatched

C8_Witness ==
    /\ patchRuns = MaxPatchRuns
    /\ toolsAttr0 = "absent" /\ toolsAttr = "patched"
    /\ assignCount = 1
    /\ appImported

\* what the .env file gave the process for key k
FromDotenv(k) ==
    IF dotenvFile.tree /\ dotenvFile.exists /\ dotenvFile.loader
    THEN dotenvFile[k] ELSE Unset

\* C9: when start() is reached both KSHANA_HOST and KSHANA_PUBLIC_HOST are set:
\* to the inherited value if there was one, else to the value the .env file
\* gave, else to 127.0.0.1.
C9_DefaultsOnlyWhenUnset ==
    epc \in {"import_app", "start", "started"}
        => \A k \in EnvKeys :
              /\ environ[k] /= Unset
              /\ environ[k] =
                    IF environ0[k] /= Unset THEN environ0[k]
                    ELSE IF FromDotenv(k) /= Unset THEN FromDotenv(k)
                    ELSE Loopback

C9_Witness ==
    /\ epc = "started"
    /\ environ0["KSHANA_HOST"] = "0.0.0.0" /\ environ["KSHANA_HOST"] = "0.0.0.0"
    /\ environ0["KSHANA_PUBLIC_HOST"] = Unset
    /\ FromDotenv("KSHANA_PUBLIC_HOST") = Unset
    /\ environ["KSHANA_PUBLIC_HOST"] = Loopback

=============================================================================
